---- MODULE Spec2Model ----
(***************************************************************************)
(* A model of gocfg: Load populates the fields of a struct from loaders,   *)
(* guided by per-field tags that may reference other fields.               *)
(*                                                                         *)
(* Go strings are modelled as sequences of one-character strings, so that  *)
(* parsing, splitting, trimming and escaping are computed character by     *)
(* character as the code computes them.                                    *)
(***************************************************************************)
EXTENDS Integers, Sequences, FiniteSets, TLC

VARIABLES
    loaders,      \* Load's argument: the ordered list of loaders
    schema,       \* the struct type C: field index -> (tag key -> raw tag value)
    pc,           \* position inside Load (or inside the tag pipeline)
    nodes,        \* Load's map of pending nodes, keyed by field name
    built,        \* history: the nodes as built by Load's first pass
    iter,         \* the field names the current range over nodes has yet to produce
    progress,     \* Load's progress flag of the current pass
    config,       \* the struct value being populated: field name -> value
    err,          \* the error Load returns
    calls,        \* history: the loader calls made, in order
    passes,       \* history: the number of passes over nodes started
    environ,      \* the process environment os.LookupEnv reads: name -> value
    raw,          \* tag pipeline: the raw value of a field's tag
    parts,        \* tag pipeline, history: the parts the raw tag was written from
    tag,          \* tag pipeline: the tag after strings.TrimSpace
    references,   \* tag pipeline: what parseTag returned
    resolvedTag   \* tag pipeline: what resolveTag returned

vars == <<loaders, schema, pc, nodes, built, iter, progress, config, err, calls,
          passes, environ, raw, parts, tag, references, resolvedTag>>

loadVars == <<loaders, schema, nodes, built, iter, progress, err, calls, passes, environ>>
tagVars == <<raw, parts, tag, references, resolvedTag>>

(***************************************************************************)
(* Bounds of the model.                                                    *)
(***************************************************************************)
MaxLen == 5       \* longest raw tag drawn character by character
MaxParts == 3     \* most parts of a raw tag written as p1||...||pn

(***************************************************************************)
(* Text.                                                                   *)
(***************************************************************************)
Quote == "\""
At == "@"
Bar == "|"

Lower == {"a","b","c","d","e","f","g","h","i","j","k","l","m",
          "n","o","p","q","r","s","t","u","v","w","x","y","z"}
Upper == {"A","B","C","D","E","F","G","H","I","J","K","L","M",
          "N","O","P","Q","R","S","T","U","V","W","X","Y","Z"}
Digit == {"0","1","2","3","4","5","6","7","8","9"}

isIdentChar(c) == c \in Lower \/ c \in Upper \/ c \in Digit \/ c = "_"

IsSpace(c) == c \in {" ", "\t", "\n", "\r", "\f"}

RECURSIVE TrimLeft(_)
TrimLeft(s) == IF s # <<>> /\ IsSpace(Head(s)) THEN TrimLeft(Tail(s)) ELSE s

RECURSIVE TrimRight(_)
TrimRight(s) ==
    IF s # <<>> /\ IsSpace(s[Len(s)]) THEN TrimRight(SubSeq(s, 1, Len(s) - 1)) ELSE s

TrimSpace(s) == TrimRight(TrimLeft(s))

HasPrefix(s, p) == Len(s) >= Len(p) /\ SubSeq(s, 1, Len(p)) = p

\* The least index at or after i where sep starts in s, or 0.
RECURSIVE IndexFrom(_, _, _)
IndexFrom(s, sep, i) ==
    IF i + Len(sep) - 1 > Len(s) THEN 0
    ELSE IF SubSeq(s, i, i + Len(sep) - 1) = sep THEN i
    ELSE IndexFrom(s, sep, i + 1)

Contains(s, sep) == IndexFrom(s, sep, 1) # 0

\* Split as it would be if it cut at the first occurrence of sep only.
Split_first(s, sep) ==
    LET k == IndexFrom(s, sep, 1) IN
    IF k = 0 THEN <<s>>
    ELSE <<SubSeq(s, 1, k - 1), SubSeq(s, k + Len(sep), Len(s))>>

\* strings.Split: cut at every occurrence of sep, scanning left to right.
RECURSIVE Split(_, _)
Split(s, sep) ==
    LET k == IndexFrom(s, sep, 1) IN
    IF k = 0 THEN <<s>>
    ELSE <<SubSeq(s, 1, k - 1)>> \o Split(SubSeq(s, k + Len(sep), Len(s)), sep)

\* strings.Join with the empty separator.
RECURSIVE Join(_)
Join(ss) == IF ss = <<>> THEN <<>> ELSE Head(ss) \o Join(Tail(ss))

BarBar == <<Bar, Bar>>

(***************************************************************************)
(* parseTag: the field references of a tag.                                *)
(***************************************************************************)
\* identEnd that stops after the first identifier character.
identEnd_one(t, end) ==
    IF end <= Len(t) /\ isIdentChar(t[end]) THEN end + 1 ELSE end

RECURSIVE identEnd(_, _)
identEnd(t, end) ==
    IF end <= Len(t) /\ isIdentChar(t[end]) THEN identEnd(t, end + 1) ELSE end

\* The loop of parseTag from index i on (indices from 1). Each reference is
\* kept with the index of its '@'.
RECURSIVE parseFrom(_, _, _, _)
parseFrom(t, i, inEscape, refs) ==
    IF i > Len(t) THEN refs
    ELSE IF inEscape THEN parseFrom(t, i + 1, FALSE, refs)
    ELSE IF t[i] = Quote THEN parseFrom(t, i + 1, TRUE, refs)
    ELSE IF t[i] = At /\ i + 1 <= Len(t) /\ isIdentChar(t[i + 1])
         THEN LET start == i + 1
                  end == identEnd(t, start)
              IN  parseFrom(t, end, FALSE,
                            Append(refs, [at |-> i, name |-> SubSeq(t, start, end - 1)]))
    ELSE parseFrom(t, i + 1, FALSE, refs)

parseRefs(t) == parseFrom(t, 1, FALSE, <<>>)

parseTag(t) == LET refs == parseRefs(t) IN [k \in 1..Len(refs) |-> refs[k].name]

(***************************************************************************)
(* resolveTag and resolvePart. A result is [err, name, value]: err is      *)
(* "none" or "unbound" (utils.ErrUnboundVariable, naming name).            *)
(***************************************************************************)
\* reflect.Value.FieldByName(...).IsValid(): the struct has a field of that name.
FieldIsValid(configValue, fieldName) == fieldName \in DOMAIN configValue

\* reflect.Value.String() of a field: the text of a field of kind string, and
\* "<int Value>" for a field of kind int, whose value is <<"int", n>>.
FieldString(configValue, fieldName) ==
    LET v == configValue[fieldName] IN
    IF Len(v) = 2 /\ v[1] = "int"
    THEN <<"<", "i", "n", "t", " ", "V", "a", "l", "u", "e", ">">>
    ELSE v

\* The escape loop as it would be if it copied the quote it meets.
RECURSIVE unescapeFrom_keepQuote(_, _, _, _)
unescapeFrom_keepQuote(part, i, inEscape, result) ==
    IF i > Len(part) THEN result
    ELSE IF inEscape
         THEN unescapeFrom_keepQuote(part, i + 1, FALSE, Append(result, part[i]))
    ELSE IF part[i] = Quote
         THEN unescapeFrom_keepQuote(part, i + 1, TRUE, Append(result, part[i]))
    ELSE unescapeFrom_keepQuote(part, i + 1, FALSE, Append(result, part[i]))

\* The escape loop of resolvePart from index i on.
RECURSIVE unescapeFrom(_, _, _, _)
unescapeFrom(part, i, inEscape, result) ==
    IF i > Len(part) THEN result
    ELSE IF inEscape THEN unescapeFrom(part, i + 1, FALSE, Append(result, part[i]))
    ELSE IF part[i] = Quote THEN unescapeFrom(part, i + 1, TRUE, result)
    ELSE unescapeFrom(part, i + 1, FALSE, Append(result, part[i]))

resolvePart(part, configValue) ==
    IF HasPrefix(part, <<At>>)
    THEN LET fieldName == SubSeq(part, 2, Len(part)) IN
         IF ~FieldIsValid(configValue, fieldName)
         THEN [err |-> "unbound", name |-> fieldName, value |-> <<>>]
         ELSE [err |-> "none", name |-> <<>>,
               value |-> FieldString(configValue, fieldName)]
    ELSE [err |-> "none", name |-> <<>>, value |-> unescapeFrom(part, 1, FALSE, <<>>)]

\* The loop of resolveTag over parts k.. : stops at the first part that fails.
RECURSIVE resolveParts(_, _, _, _)
resolveParts(ps, k, configValue, resolvedParts) ==
    IF k > Len(ps) THEN [err |-> "none", name |-> <<>>, value |-> Join(resolvedParts)]
    ELSE LET r == resolvePart(TrimSpace(ps[k]), configValue) IN
         IF r.err # "none" THEN [err |-> r.err, name |-> r.name, value |-> <<>>]
         ELSE resolveParts(ps, k + 1, configValue, Append(resolvedParts, r.value))

\* The fields resolvePart reads: configValue.FieldByName(part[1:]) when the
\* part starts with '@' and the struct has that field.
partReads(part, configValue) ==
    IF HasPrefix(part, <<At>>) /\ FieldIsValid(configValue, SubSeq(part, 2, Len(part)))
    THEN {SubSeq(part, 2, Len(part))}
    ELSE {}

\* The fields the loop of resolveTag reads over parts k.., up to the first
\* part that fails.
RECURSIVE partsReads(_, _, _)
partsReads(ps, k, configValue) ==
    IF k > Len(ps) THEN {}
    ELSE IF resolvePart(TrimSpace(ps[k]), configValue).err # "none" THEN {}
    ELSE partReads(TrimSpace(ps[k]), configValue) \cup partsReads(ps, k + 1, configValue)

\* The fields resolveTag reads while it resolves t.
resolveReads(t, configValue) ==
    IF Contains(t, BarBar)
    THEN partsReads(Split(t, BarBar), 1, configValue)
    ELSE partReads(t, configValue)

\* resolveTag as it would be if it never cut the tag at '||'.
resolveTag_noSplit(t, configValue) == resolvePart(t, configValue)

resolveTag(t, configValue) ==
    IF Contains(t, BarBar)
    THEN resolveParts(Split(t, BarBar), 1, configValue, <<>>)
    ELSE resolvePart(t, configValue)

(***************************************************************************)
(* Errors. wrap is the fmt.Errorf prefix Load puts around a cause ("none", *)
(* "resolving": "error resolving tag for <field>", "loading": "error       *)
(* loading <field>"); kind is the error errors.Is finds at the bottom of   *)
(* the chain: "unbound" (utils.ErrUnboundVariable, naming name),           *)
(* "circular" (utils.ErrCircularDependency, naming name -> dep), "loader"  *)
(* (an error of a loader's own), "stalled" (Load's "unable to resolve all  *)
(* dependencies").                                                         *)
(***************************************************************************)
NoName == <<>>

NoErr == [wrap |-> "none", field |-> NoName, kind |-> "none", name |-> NoName, dep |-> NoName]

ErrUnboundVariable(name) ==
    [wrap |-> "none", field |-> NoName, kind |-> "unbound", name |-> name, dep |-> NoName]

\* The error as it would be if it named the pair the other way round.
ErrCircularDependency_swapped(nodeName, dep) ==
    [wrap |-> "none", field |-> NoName, kind |-> "circular", name |-> dep, dep |-> nodeName]

ErrCircularDependency(nodeName, dep) ==
    [wrap |-> "none", field |-> NoName, kind |-> "circular", name |-> nodeName, dep |-> dep]

ErrLoader == [wrap |-> "none", field |-> NoName, kind |-> "loader", name |-> NoName, dep |-> NoName]

\* The error as it would be if it did not name the variable.
ErrMissingRequired_unnamed(envVar) ==
    [wrap |-> "none", field |-> NoName, kind |-> "missing", name |-> NoName, dep |-> NoName]

\* utils.ErrMissingRequired, naming the environment variable.
ErrMissingRequired(envVar) ==
    [wrap |-> "none", field |-> NoName, kind |-> "missing", name |-> envVar, dep |-> NoName]

\* An error of an adapter's own making (fmt.Errorf without %w of a sentinel):
\* kind tells the message, name the text it quotes.
ErrAdapter(kind, name) ==
    [wrap |-> "none", field |-> NoName, kind |-> kind, name |-> name, dep |-> NoName]

ErrStalled == [wrap |-> "none", field |-> NoName, kind |-> "stalled", name |-> NoName, dep |-> NoName]

\* fmt.Errorf("error ... %s: %w", fieldName, cause)
Wrap(what, fieldName, cause) == [cause EXCEPT !.wrap = what, !.field = fieldName]

(***************************************************************************)
(* detectCircularDependencies: depth-first search over the nodes, started  *)
(* from the nodes in the order the range over the map produces them.       *)
(***************************************************************************)
\* The test of the recursion stack as it would be if it never found the node.
onStack_never(recStack, dep) == FALSE

onStack(recStack, dep) == dep \in recStack

RECURSIVE checkCycle(_, _, _)
RECURSIVE checkDeps(_, _, _, _)

\* checkCycle as it would be if it passed over a name that is no node.
checkCycle_skipMissing(ns, st, nodeName) ==
    IF nodeName \notin DOMAIN ns
    THEN st
    ELSE LET st1 == [st EXCEPT !.visited = @ \cup {nodeName},
                               !.recStack = @ \cup {nodeName}]
             st2 == checkDeps(ns, st1, nodeName, 1)
         IN  IF st2.err.kind # "none" THEN st2
             ELSE [st2 EXCEPT !.recStack = @ \ {nodeName}]

\* st is [visited, recStack, err]; the result is st after the call.
checkCycle(ns, st, nodeName) ==
    IF nodeName \notin DOMAIN ns
    THEN [st EXCEPT !.err = ErrUnboundVariable(nodeName)]
    ELSE LET st1 == [st EXCEPT !.visited = @ \cup {nodeName},
                               !.recStack = @ \cup {nodeName}]
             st2 == checkDeps(ns, st1, nodeName, 1)
         IN  IF st2.err.kind # "none" THEN st2
             ELSE [st2 EXCEPT !.recStack = @ \ {nodeName}]

\* The loop of checkCycle over node.dependencies from the k-th on.
checkDeps(ns, st, nodeName, k) ==
    IF k > Len(ns[nodeName].dependencies) THEN st
    ELSE LET dep == ns[nodeName].dependencies[k] IN
         IF dep \notin st.visited
         THEN LET st1 == checkCycle(ns, st, dep) IN
              IF st1.err.kind # "none" THEN st1
              ELSE checkDeps(ns, st1, nodeName, k + 1)
         ELSE IF onStack(st.recStack, dep)
         THEN [st EXCEPT !.err = ErrCircularDependency(nodeName, dep)]
         ELSE checkDeps(ns, st, nodeName, k + 1)

\* The range over the nodes as it would be if it stopped after the first node.
detectFrom_firstOnly(ns, order, k, st) ==
    IF k > Len(order) THEN NoErr ELSE checkCycle(ns, st, order[k]).err

RECURSIVE detectFrom(_, _, _, _)
detectFrom(ns, order, k, st) ==
    IF k > Len(order) THEN NoErr
    ELSE IF order[k] \notin st.visited
    THEN LET st1 == checkCycle(ns, st, order[k]) IN
         IF st1.err.kind # "none" THEN st1.err
         ELSE detectFrom(ns, order, k + 1, st1)
    ELSE detectFrom(ns, order, k + 1, st)

detectCircularDependencies(ns, order) ==
    detectFrom(ns, order, 1, [visited |-> {}, recStack |-> {}, err |-> NoErr])

\* The orders in which a range over a Go map may produce the keys S.
Orders(S) ==
    {s \in [1..Cardinality(S) -> S] : \A i, j \in DOMAIN s : i # j => s[i] # s[j]}

(***************************************************************************)
(* The inputs of Load: the struct type C and the loaders.                  *)
(***************************************************************************)
\* The fields of the struct, in index order. X is the name of no field. In a
\* schema, schema[i].kind is the kind of the i-th field's type ("string", "int")
\* and the other entries are its tag.
FieldNames == << <<"A">>, <<"B">>, <<"C">> >>

NumField == Len(FieldNames)

StructFields == {FieldNames[i] : i \in 1..NumField}

\* The tag keys a field may carry.
TagKeys == {"env", "sm"}

\* Raw tag values of a field under one key (<<>>: the key is absent or empty).
TagPool ==
    { <<>>, <<" ">>, <<"x">>,
      <<"@","A">>, <<"@","B">>, <<"@","C">>, <<"@","X">>,
      <<"@","A","|","|","@","B">>, <<"@","B","|","|","x">>,
      <<"x","@","A">>, <<"@","A","?">>, <<Quote,"@","A">>, <<"@">> }

EnvPool == { <<>>, <<"x">>, <<"@","B">> }
SmPool == { <<>>, <<"y">>, <<"@","C">> }

\* A loader of the tests (StringLoader, MockLoader): the name GocfgLoaderName
\* returns, and the prefix its Load puts before the resolved tag when it sets
\* the field.
Loader(name, prefix) == [type |-> "string", name |-> name, prefix |-> prefix]

\* env.New(): the loader of environment variables.
EnvNew == [type |-> "env"]

\* secretsmanager.New(client): the loader of AWS Secrets Manager secrets.
SmNew == [type |-> "sm"]

\* loaders.WithTag(name, loader)
WithTag(name, loader) == [type |-> "withTag", name |-> name, loader |-> loader]

GocfgLoaderName(l) ==
    CASE l.type = "env" -> "env"
      [] l.type = "sm" -> "aws/secretsmanager"
      [] l.type = "withTag" -> l.name
      [] l.type = "string" -> l.name

SingleInputs ==
    { [loaders |-> << Loader("env", <<>>) >>, schema |-> sc] :
        sc \in [1..NumField -> [env : TagPool, sm : {<<>>}, kind : {"string"}]] }

LoaderLists ==
    { << Loader("env", <<"1">>), Loader("sm", <<"2">>) >>,
      << Loader("sm", <<"2">>), Loader("env", <<"1">>) >>,
      << Loader("env", <<"1">>), Loader("env", <<"3">>) >> }

MultiInputs ==
    { [loaders |-> ls, schema |-> sc] :
        ls \in LoaderLists, sc \in [1..NumField -> [env : EnvPool, sm : SmPool, kind : {"string"}]] }

\* *new(C): every field holds the zero value of a string.
ZeroValue == <<>>
ZeroConfig == [f \in StructFields |-> ZeroValue]

(***************************************************************************)
(* Load.                                                                   *)
(***************************************************************************)
\* loaderMap[loader.GocfgLoaderName()] = loader, over the loaders in order: a
\* later loader of the same name replaces an earlier one. The value is the
\* loader's index in the argument list.
loaderMapOf(ls) ==
    [name \in {GocfgLoaderName(ls[k]) : k \in DOMAIN ls} |->
        CHOOSE k \in DOMAIN ls :
            /\ GocfgLoaderName(ls[k]) = name
            /\ \A j \in DOMAIN ls : GocfgLoaderName(ls[j]) = name => j <= k]

\* field.Tag.Get(loaderName)
TagGet(sc, i, loaderName) == sc[i][loaderName]

\* The inner loop as it would be if it did not pass over an empty tag.
firstMatch_any(sc, i, order, k) == IF k > Len(order) THEN 0 ELSE k

\* The inner loop of the first pass for field i: the first loader name, in the
\* order the range over loaderMap produces them, whose tag is not empty (0: none).
RECURSIVE firstMatch(_, _, _, _)
firstMatch(sc, i, order, k) ==
    IF k > Len(order) THEN 0
    ELSE IF TagGet(sc, i, order[k]) = <<>> THEN firstMatch(sc, i, order, k + 1)
    ELSE k

newNode(sc, i, loaderName, loader) ==
    LET t == TrimSpace(TagGet(sc, i, loaderName)) IN
    [fieldName |-> FieldNames[i], fieldIndex |-> i, tag |-> t, loader |-> loader,
     dependencies |-> parseTag(t), resolved |-> FALSE]

\* The first pass: orders[i] is the order of the range over loaderMap for field i.
buildNodes(sc, lm, orders) ==
    LET claimed == {i \in 1..NumField : firstMatch(sc, i, orders[i], 1) # 0}
        indexOf(f) == CHOOSE i \in claimed : FieldNames[i] = f
        nameOf(i) == orders[i][firstMatch(sc, i, orders[i], 1)]
    IN  [f \in {FieldNames[i] : i \in claimed} |->
            newNode(sc, indexOf(f), nameOf(indexOf(f)), lm[nameOf(indexOf(f))])]

Build ==
    /\ pc = "build"
    /\ LET lm == loaderMapOf(loaders) IN
       \E orders \in [1..NumField -> Orders(DOMAIN lm)] :
          /\ nodes' = buildNodes(schema, lm, orders)
          /\ built' = nodes'
    /\ pc' = "detect"
    /\ UNCHANGED <<loaders, schema, iter, progress, config, err, calls, passes, environ>>
    /\ UNCHANGED tagVars

Detect ==
    /\ pc = "detect"
    /\ \E order \in Orders(DOMAIN nodes) :
          LET e == detectCircularDependencies(nodes, order) IN
          /\ err' = e
          /\ pc' = IF e.kind # "none" THEN "done" ELSE "loop"
    /\ UNCHANGED <<loaders, schema, nodes, built, iter, progress, config, calls, passes, environ>>
    /\ UNCHANGED tagVars

\* for len(nodes) > 0 { progress := false; for fieldName, n := range nodes ...
LoopHead ==
    /\ pc = "loop"
    /\ IF DOMAIN nodes = {}
       THEN /\ pc' = "done"
            /\ UNCHANGED <<iter, progress, passes>>
       ELSE /\ pc' = "range"
            /\ progress' = FALSE
            /\ iter' = DOMAIN nodes
            /\ passes' = passes + 1
    /\ UNCHANGED <<loaders, schema, nodes, built, config, err, calls, environ>>
    /\ UNCHANGED tagVars

\* The test as it would be if no node were ever ready.
allResolved_never(n, ns) == FALSE

\* Whether all dependencies of n are resolved: none is a pending node that is
\* not marked resolved.
allResolved(n, ns) ==
    \A k \in DOMAIN n.dependencies :
        ~(n.dependencies[k] \in DOMAIN ns /\ ~ns[n.dependencies[k]].resolved)

\* What a loader of the tests sets a field of kind string to: its prefix
\* followed by the resolved tag.
loaderValue(loader, resolved) == loader.prefix \o resolved

(***************************************************************************)
(* Field values and utils.SetFieldValue. The value of a field of kind      *)
(* string is its text; the value n of a field of kind int is <<"int", n>>, *)
(* which is the text of no string.                                         *)
(***************************************************************************)
IntValue(n) == <<"int", n>>

\* The zero value of a field of the given kind.
ZeroOf(kind) == IF kind = "int" THEN IntValue(0) ELSE ZeroValue

Digits == <<"0", "1", "2", "3", "4", "5", "6", "7", "8", "9">>

DigitValue(c) == (CHOOSE k \in DOMAIN Digits : Digits[k] = c) - 1

RECURSIVE digitsValue(_, _)
digitsValue(s, acc) ==
    IF s = <<>> THEN acc ELSE digitsValue(Tail(s), acc * 10 + DigitValue(Head(s)))

\* strconv.ParseInt(value, 10, 64), on texts too short to leave 64 bits: an
\* optional sign, then one or more decimal digits.
ParseInt(value) ==
    LET signed == value # <<>> /\ value[1] \in {"+", "-"}
        body == IF signed THEN Tail(value) ELSE value
    IN  IF body = <<>> \/ \E k \in DOMAIN body : body[k] \notin Digit
        THEN [ok |-> FALSE, n |-> 0]
        ELSE [ok |-> TRUE,
              n |-> IF signed /\ value[1] = "-" THEN 0 - digitsValue(body, 0)
                    ELSE digitsValue(body, 0)]

\* What a loader's Load did: the error it returned, whether it set the
\* destination and to what, and the calls it passed on to another loader.
Outcome(e, write, value) == [err |-> e, write |-> write, value |-> value, inner |-> <<>>]

Failed(e) == Outcome(e, FALSE, <<>>)

Skipped == Outcome(NoErr, FALSE, <<>>)

\* utils.SetFieldValue on a destination of the given kind.
SetFieldValue(kind, value) ==
    IF kind = "string" THEN Outcome(NoErr, TRUE, value)
    ELSE IF kind = "int"
    THEN LET r == ParseInt(value) IN
         IF r.ok THEN Outcome(NoErr, TRUE, IntValue(r.n))
         ELSE Failed(ErrAdapter("invalid integer", value))
    ELSE Failed(ErrAdapter("unsupported field type", <<>>))

(***************************************************************************)
(* The environment loader (loaders/env).                                   *)
(***************************************************************************)
HasSuffix(s, p) == Len(s) >= Len(p) /\ SubSeq(s, Len(s) - Len(p) + 1, Len(s)) = p

TrimSuffix(s, p) == IF HasSuffix(s, p) THEN SubSeq(s, 1, Len(s) - Len(p)) ELSE s

\* The variable an environment tag names: VAR, VAR? or VAR=default.
envVarOf(t) ==
    LET idx == IndexFrom(t, <<"=">>, 1) IN
    IF HasSuffix(t, <<"?">>) THEN TrimSuffix(t, <<"?">>)
    ELSE IF idx # 0 THEN TrimSpace(SubSeq(t, 1, idx - 1))
    ELSE t

isOptionalEnv(t) == HasSuffix(t, <<"?">>)

defaultValueOf(t) ==
    LET idx == IndexFrom(t, <<"=">>, 1) IN
    IF ~HasSuffix(t, <<"?">>) /\ idx # 0 THEN SubSeq(t, idx + 1, Len(t)) ELSE <<>>

\* The optional case as it would be if it reported the missing variable.
envMissingOptional_fail(envVar) == Failed(ErrMissingRequired(envVar))

\* if isOptional { return nil }
envMissingOptional(envVar) == Skipped

\* (*loader).Load of the environment loader, env being the environment.
envLoad(kind, resolved, env) ==
    LET t == TrimSpace(resolved) IN
    IF HasPrefix(t, <<At>>) \/ Contains(t, BarBar)
    THEN Failed(ErrAdapter("unexpected unresolved tag", t))
    ELSE LET envVar == envVarOf(t)
             defaultValue == defaultValueOf(t)
         IN  IF envVar \notin DOMAIN env
             THEN IF isOptionalEnv(t) THEN envMissingOptional(envVar)
                  ELSE IF defaultValue # <<>> THEN SetFieldValue(kind, defaultValue)
                  ELSE Failed(ErrMissingRequired(envVar))
             ELSE SetFieldValue(kind, env[envVar])

(***************************************************************************)
(* The Secrets Manager loader (loaders/aws/secretsmanager). What the       *)
(* client's GetSecretValue returns is the choice of the service: an error, *)
(* a binary secret, neither string nor binary, or a SecretString, which is *)
(* either the text of a JSON object (map holds its members) or another     *)
(* text.                                                                   *)
(***************************************************************************)
JString(v) == [t |-> "string", s |-> v, n |-> 0, b |-> FALSE]
JNumber(v) == [t |-> "float64", s |-> <<>>, n |-> v, b |-> FALSE]
JBool(v) == [t |-> "bool", s |-> <<>>, n |-> 0, b |-> v]
JNull == [t |-> "nil", s |-> <<>>, n |-> 0, b |-> FALSE]

SecretResult(res, object, text, map) ==
    [res |-> res, object |-> object, text |-> text, map |-> map]

NoSecret == SecretResult("none", FALSE, <<>>, << >>)

SecretResults ==
    { SecretResult("error", FALSE, <<>>, << >>),
      SecretResult("binary", FALSE, <<>>, << >>),
      SecretResult("empty", FALSE, <<>>, << >>),
      SecretResult("string", FALSE, <<"p">>, << >>),
      SecretResult("string", TRUE, <<>>, << >>),
      SecretResult("string", TRUE, <<>>, (<<"k">> :> JString(<<"v">>))),
      SecretResult("string", TRUE, <<>>,
                   (<<"A">> :> JNumber(54)) @@ (<<"k">> :> JBool(TRUE)) @@ (<<"n">> :> JNull)) }

\* fmt.Sprintf("%.0f", v) of a whole number.
RECURSIVE FormatNat(_)
FormatNat(n) ==
    IF n < 10 THEN <<Digits[n + 1]>> ELSE Append(FormatNat(n \div 10), Digits[(n % 10) + 1])

FormatInt(n) == IF n < 0 THEN <<"-">> \o FormatNat(0 - n) ELSE FormatNat(n)

\* The switch of Load over the type of the JSON value, for whole numbers,
\* strings, booleans and null.
stringValue(v) ==
    CASE v.t = "string" -> v.s
      [] v.t = "float64" -> FormatInt(v.n)
      [] v.t = "bool" -> IF v.b THEN <<"t","r","u","e">> ELSE <<"f","a","l","s","e">>
      [] v.t = "nil" -> <<>>

isOptionalSm(resolved) == HasSuffix(resolved, <<"?">>)

secretNameOf(resolved) ==
    LET t == TrimSuffix(resolved, <<"?">>)
        idx == IndexFrom(t, <<":">>, 1)
    IN  IF idx # 0 THEN TrimSpace(SubSeq(t, 1, idx - 1)) ELSE TrimSpace(t)

jsonKeyOf(resolved, fieldName) ==
    LET t == TrimSuffix(resolved, <<"?">>)
        idx == IndexFrom(t, <<":">>, 1)
    IN  IF idx # 0 THEN TrimSpace(SubSeq(t, idx + 1, Len(t))) ELSE fieldName

\* (*loader).Load of the Secrets Manager loader, result being what the
\* client returned for the secret.
smLoad(fieldName, kind, resolved, result) ==
    IF HasPrefix(resolved, <<At>>) \/ Contains(resolved, BarBar)
    THEN Failed(ErrAdapter("unexpected unresolved tag", resolved))
    ELSE LET isOptional == isOptionalSm(resolved)
             secretName == secretNameOf(resolved)
             jsonKey == jsonKeyOf(resolved, fieldName)
         IN  IF result.res = "error"
             THEN IF isOptional THEN Skipped
                  ELSE Failed(ErrAdapter("failed to retrieve secret", secretName))
             ELSE IF result.res = "binary"
             THEN Failed(ErrAdapter("binary secrets not supported", fieldName))
             ELSE IF result.res # "string"
             THEN Failed(ErrAdapter("empty secret returned", secretName))
             ELSE IF ~result.object
             THEN IF jsonKey # <<>> /\ jsonKey # fieldName
                  THEN Failed(ErrAdapter("cannot extract key from non-JSON secret", jsonKey))
                  ELSE SetFieldValue(kind, result.text)
             ELSE IF jsonKey \in DOMAIN result.map
             THEN SetFieldValue(kind, stringValue(result.map[jsonKey]))
             ELSE IF isOptional THEN Skipped
             ELSE Failed(ErrAdapter("key not found in secret", jsonKey))

(***************************************************************************)
(* A loader's Load. ext is what lies outside the program: whether a loader *)
(* of the tests succeeds, and what the Secrets Manager client returns.     *)
(***************************************************************************)
RECURSIVE Externals(_)
Externals(l) ==
    CASE l.type = "string" -> {[ok |-> b, secret |-> NoSecret] : b \in BOOLEAN}
      [] l.type = "env" -> {[ok |-> TRUE, secret |-> NoSecret]}
      [] l.type = "sm" -> {[ok |-> TRUE, secret |-> r] : r \in SecretResults}
      [] l.type = "withTag" -> Externals(l.loader)

\* Load of a loader of the tests: it sets a field of kind string to its
\* prefix followed by the resolved tag, or fails.
stringLoad(l, kind, resolved, ok) ==
    IF kind # "string" \/ ~ok THEN Failed(ErrLoader)
    ELSE Outcome(NoErr, TRUE, loaderValue(l, resolved))

\* The call a wrapper passes on: to which loader, with which arguments, and
\* what came back.
Delegation(l, fieldName, dest, resolved, e) ==
    [loader |-> l, field |-> fieldName, dest |-> dest, resolvedTag |-> resolved, err |-> e]

\* withTag's Load as it would be if it dropped the error of the loader inside.
withTagResult_swallow(r) == [r EXCEPT !.err = NoErr]

\* return w.loader.Load(ctx, field, value, resolvedTag)
withTagResult(r) == r

RECURSIVE loaderLoad(_, _, _, _, _, _, _)
loaderLoad(l, fieldName, dest, kind, resolved, env, ext) ==
    CASE l.type = "string" -> stringLoad(l, kind, resolved, ext.ok)
      [] l.type = "env" -> envLoad(kind, resolved, env)
      [] l.type = "sm" -> smLoad(fieldName, kind, resolved, ext.secret)
      [] l.type = "withTag" ->
           LET r == loaderLoad(l.loader, fieldName, dest, kind, resolved, env, ext) IN
           [withTagResult(r) EXCEPT
               !.inner = <<Delegation(l.loader, fieldName, dest, resolved, r.err)>>]

\* Load as it would be if it went on with the range after a failure.
pcAfterError_continue == "range"

\* Where Load goes after a tag failed to resolve or a loader failed: it returns.
pcAfterError == "done"

\* The slot as it would be if the index were off by one.
fieldSlot_next(n) == FieldNames[(n.fieldIndex % NumField) + 1]

\* The slot as it would be if every loader were handed the first field.
fieldSlot_first(n) == FieldNames[1]

\* The slot a loader is handed: configValue.Field(n.fieldIndex).
fieldSlot(n) == FieldNames[n.fieldIndex]

\* The removal as it would be if the node stayed in the map.
deleteNode_keep(ns, fieldName) == ns

\* delete(nodes, fieldName)
deleteNode(ns, fieldName) == [f \in DOMAIN ns \ {fieldName} |-> ns[f]]

\* One iteration of the range over nodes: the map produces fieldName.
RangeStep ==
    /\ pc = "range"
    /\ \E fieldName \in iter :
        LET n == nodes[fieldName] IN
        /\ iter' = iter \ {fieldName}
        /\ IF ~allResolved(n, nodes)
           THEN UNCHANGED <<pc, nodes, progress, config, err, calls>>
           ELSE LET r == resolveTag(n.tag, config) IN
                /\ progress' = TRUE
                /\ IF r.err # "none"
                   THEN /\ err' = Wrap("resolving", fieldName, ErrUnboundVariable(r.name))
                        /\ pc' = pcAfterError
                        /\ UNCHANGED <<nodes, config, calls>>
                   ELSE \E ext \in Externals(loaders[n.loader]) :
                        LET out == loaderLoad(loaders[n.loader], fieldName, fieldSlot(n),
                                              schema[n.fieldIndex].kind, r.value,
                                              environ, ext)
                        IN
                        /\ calls' = Append(calls, [field |-> fieldName, loader |-> n.loader,
                                                   dest |-> fieldSlot(n),
                                                   resolvedTag |-> r.value,
                                                   ok |-> out.err.kind = "none",
                                                   wrote |-> out.write,
                                                   ext |-> ext, inner |-> out.inner])
                        /\ IF out.err.kind = "none"
                           THEN /\ config' = IF out.write
                                             THEN [config EXCEPT ![fieldSlot(n)] = out.value]
                                             ELSE config
                                /\ nodes' = deleteNode(nodes, fieldName)
                                /\ UNCHANGED <<pc, err>>
                           ELSE /\ err' = Wrap("loading", fieldName, out.err)
                                /\ pc' = pcAfterError
                                /\ UNCHANGED <<nodes, config>>
    /\ UNCHANGED <<loaders, schema, built, passes, environ>>
    /\ UNCHANGED tagVars

\* The range is over: if !progress { return ... "unable to resolve all dependencies" }
PassEnd ==
    /\ pc = "range"
    /\ iter = {}
    /\ IF ~progress
       THEN /\ err' = ErrStalled
            /\ pc' = "done"
       ELSE /\ pc' = "loop"
            /\ UNCHANGED err
    /\ UNCHANGED <<loaders, schema, nodes, built, iter, progress, config, calls, passes, environ>>
    /\ UNCHANGED tagVars

Init ==
    /\ \E in \in SingleInputs \cup MultiInputs :
          /\ loaders = in.loaders
          /\ schema = in.schema
    /\ pc = "build"
    /\ nodes = << >>
    /\ built = << >>
    /\ iter = {}
    /\ progress = FALSE
    /\ config = ZeroConfig
    /\ err = NoErr
    /\ calls = << >>
    /\ passes = 0
    /\ environ = << >>
    /\ raw = << >>
    /\ parts = << >>
    /\ tag = << >>
    /\ references = << >>
    /\ resolvedTag = [err |-> "none", name |-> <<>>, value |-> <<>>]

Next == Build \/ Detect \/ LoopHead \/ RangeStep \/ PassEnd

Spec == Init /\ [][Next]_vars

\* Load runs to its return: it is sequential code, and each step is taken as
\* long as the loader it calls returns.
\* The schemas of the runs followed to their end: chains of references of
\* every length, cycles, references to fields with no node, a tag that fails
\* to resolve, fields with no tag.
LivePool == { <<>>, <<"x">>, <<"@","A">>, <<"@","B">>, <<"@","C">>, <<"@">> }

LiveInputs ==
    { [loaders |-> << Loader("env", <<>>) >>, schema |-> sc] :
        sc \in [1..NumField -> [env : LivePool, sm : {<<>>}, kind : {"string"}]] }

LiveInit ==
    /\ \E in \in LiveInputs :
          /\ loaders = in.loaders
          /\ schema = in.schema
    /\ pc = "build"
    /\ nodes = << >>
    /\ built = << >>
    /\ iter = {}
    /\ progress = FALSE
    /\ config = ZeroConfig
    /\ err = NoErr
    /\ calls = << >>
    /\ passes = 0
    /\ environ = << >>
    /\ raw = << >>
    /\ parts = << >>
    /\ tag = << >>
    /\ references = << >>
    /\ resolvedTag = [err |-> "none", name |-> <<>>, value |-> <<>>]

LiveSpec == LiveInit /\ [][Next]_vars /\ WF_vars(Next)

(***************************************************************************)
(* Load with the loaders the repository ships: the environment loader, the *)
(* Secrets Manager loader, and loaders renamed by WithTag.                 *)
(***************************************************************************)
\* The tag and the kind of one field.
Field(kind, env, sm, cfg) ==
    ("kind" :> kind) @@ ("env" :> env) @@ ("aws/secretsmanager" :> sm) @@ ("cfg" :> cfg)

NoField == Field("string", <<>>, <<>>, <<>>)

\* The default texts of the tags N=default.
DefaultSigma == {"d", "4", " ", "?", "="}
MaxDefault == 2
Defaults == UNION {[1..k -> DefaultSigma] : k \in 0..MaxDefault}

EnvTags ==
    { <<"N">>, <<" ", "N", " ">>, <<"N", "?">>, <<"N", " ", "?">>,
      <<"N", " ", "=", " ", "d">>,
      <<Quote, "@", Quote, "@", "S">>, <<Quote, "@", "N">>, <<Quote, "@", "N", "?">> }
    \cup { <<"N", "=">> \o d : d \in Defaults }

Environs ==
    { << >>,
      (<<"N">> :> <<"v">>),
      (<<"N">> :> <<"7">>) @@ (<<"M">> :> <<"N">>),
      (<<"@", "@", "S">> :> <<"t">>) @@ (<<"@", "N">> :> <<"u">>) }

EnvInputs ==
    { [loaders |-> << EnvNew >>,
       schema |-> << Field(k, a, <<>>, <<>>), Field("string", b, <<>>, <<>>), NoField >>,
       environ |-> e] :
        k \in {"string", "int"}, a \in EnvTags,
        b \in { <<>>, <<"@", "A">>, <<"M">> }, e \in Environs }

SmTags ==
    { <<"s">>, <<"s", "?">>, <<"s", ":", "k">>, <<"s", ":", "k", "?">>,
      <<"s", ":", "A", "?">>, <<"s", " ", ":", " ", "n", " ", "?">>,
      <<"s", ":", "?">>, <<"s", ":", "z", "?">> }

SmInputs ==
    { [loaders |-> << SmNew >>,
       schema |-> << Field(k, <<>>, a, <<>>), Field("string", <<>>, b, <<>>), NoField >>,
       environ |-> << >>] :
        k \in {"string", "int"}, a \in SmTags, b \in { <<>>, <<"s", ":", "k", "?">> } }

WithTagLists ==
    { << WithTag("cfg", EnvNew) >>,
      << WithTag("cfg", EnvNew), EnvNew >>,
      << EnvNew, WithTag("env", Loader("x", <<"1">>)) >>,
      << WithTag("cfg", WithTag("env", SmNew)) >>,
      << WithTag("cfg", Loader("env", <<"1">>)) >> }

WithTagInputs ==
    { [loaders |-> ls,
       schema |-> << Field("string", a, <<>>, c), Field("string", <<>>, <<>>, b), NoField >>,
       environ |-> e] :
        ls \in WithTagLists,
        a \in { <<>>, <<"N">> }, c \in { <<>>, <<"N">>, <<"N", "?">>, <<"N", "=", "d">> },
        b \in { <<>>, <<"@", "A">> },
        e \in { << >>, (<<"N">> :> <<"v">>) } }

AdapterInputs == EnvInputs \cup SmInputs \cup WithTagInputs

AdapterInit ==
    /\ \E in \in AdapterInputs :
          /\ loaders = in.loaders
          /\ schema = in.schema
          /\ environ = in.environ
    /\ pc = "build"
    /\ nodes = << >>
    /\ built = << >>
    /\ iter = {}
    /\ progress = FALSE
    /\ config = [f \in StructFields |->
                    ZeroOf(schema[CHOOSE i \in 1..NumField : FieldNames[i] = f].kind)]
    /\ err = NoErr
    /\ calls = << >>
    /\ passes = 0
    /\ raw = << >>
    /\ parts = << >>
    /\ tag = << >>
    /\ references = << >>
    /\ resolvedTag = [err |-> "none", name |-> <<>>, value |-> <<>>]

AdapterSpec == AdapterInit /\ [][Next]_vars

(***************************************************************************)
(* The tag pipeline of Load for one field, on its own: the raw tag is      *)
(* trimmed, parsed for its references, and resolved against the struct.    *)
(***************************************************************************)
Sigma == {At, Quote, Bar, "A", "x", " ", "?"}

\* Every raw tag of at most n characters of Sigma.
Strings(n) == UNION {[1..k -> Sigma] : k \in 0..n}

\* Parts of a raw tag written as p1||...||pn: a part is a core (a reference
\* to a field, or literal text) with optional blanks around it.
PartCores == { <<>>, <<"x">>, <<"x"," ","?">>, <<"@","A">>, <<"@","B">> }
Pads == { <<>>, <<" ">> }
PartPool == { [text |-> l \o c \o r, core |-> c] : l \in Pads, c \in PartCores, r \in Pads }
PartSeqs == UNION {[1..n -> PartPool] : n \in 1..MaxParts}

RECURSIVE JoinBars(_)
JoinBars(ps) ==
    IF Len(ps) = 1 THEN ps[1].text ELSE ps[1].text \o BarBar \o JoinBars(Tail(ps))

\* The struct the pipeline resolves against: A and B are loaded already.
TagConfig == (<<"A">> :> <<Quote, "v">>) @@ (<<"B">> :> <<"w", Bar, Bar, At>>)

\* tag = strings.TrimSpace(tag)
CleanTag ==
    /\ pc = "clean"
    /\ tag' = TrimSpace(raw)
    /\ pc' = "parse"
    /\ UNCHANGED <<raw, parts, references, resolvedTag, config>>
    /\ UNCHANGED loadVars

\* deps, err := parseTag(tag)
ParseTag ==
    /\ pc = "parse"
    /\ references' = parseRefs(tag)
    /\ pc' = "resolve"
    /\ UNCHANGED <<raw, parts, tag, resolvedTag, config>>
    /\ UNCHANGED loadVars

\* resolvedTag, err := resolveTag(n.tag, configValue)
ResolveTag ==
    /\ pc = "resolve"
    /\ resolvedTag' = resolveTag(tag, config)
    /\ pc' = "resolved"
    /\ UNCHANGED <<raw, parts, tag, references, config>>
    /\ UNCHANGED loadVars

\* The two bytes of the UTF-8 encoding of U+00C9, the capital E with acute
\* accent: a letter a Go field name may start with. Each stands for one byte.
ByteC3 == "C3"
Byte89 == "89"
EAcute == <<ByteC3, Byte89>>

\* A struct with a third field, named by that letter, loaded already.
WideConfig == TagConfig @@ (EAcute :> <<"z">>)

\* Tags that name that field.
WideTags ==
    { <<At>> \o EAcute,
      <<"x", Bar, Bar, At>> \o EAcute,
      <<At, "A", Bar, Bar, At>> \o EAcute,
      <<At>> \o EAcute \o <<Bar, Bar, At, "A">>,
      <<"x", At>> \o EAcute,
      <<At, "A">> \o EAcute }

TagInit ==
    /\ \/ raw \in Strings(MaxLen) /\ parts = << >> /\ config = TagConfig
       \/ \E ps \in PartSeqs : raw = JoinBars(ps) /\ parts = ps /\ config = TagConfig
       \/ raw \in WideTags /\ parts = << >> /\ config = WideConfig
    /\ pc = "clean"
    /\ tag = << >>
    /\ references = << >>
    /\ resolvedTag = [err |-> "none", name |-> <<>>, value |-> <<>>]
    /\ loaders = << >>
    /\ schema = << >>
    /\ nodes = << >>
    /\ built = << >>
    /\ iter = {}
    /\ progress = FALSE
    /\ err = NoErr
    /\ calls = << >>
    /\ passes = 0
    /\ environ = << >>

TagNext == CleanTag \/ ParseTag \/ ResolveTag

TagSpec == TagInit /\ [][TagNext]_vars

(***************************************************************************)
(* Vocabulary of the properties: the reference graph of the nodes built.   *)
(***************************************************************************)
Deps(ns, f) == {ns[f].dependencies[k] : k \in DOMAIN ns[f].dependencies}

Succ(ns, S) == UNION {Deps(ns, g) : g \in S \cap DOMAIN ns}

RECURSIVE Closure(_, _, _)
Closure(ns, S, n) == IF n = 0 THEN S ELSE Closure(ns, S \cup Succ(ns, S), n - 1)

\* What f reaches along one or more reference edges.
Reach(ns, f) == Closure(ns, Deps(ns, f), Cardinality(DOMAIN ns))

\* Some field reaches itself (a self-reference included).
HasCycle(ns) == \E f \in DOMAIN ns : f \in Reach(ns, f)

\* A cycle through two or more fields.
HasCycle2(ns) ==
    \E f, g \in DOMAIN ns : f # g /\ g \in Reach(ns, f) /\ f \in Reach(ns, g)

\* The names referenced by some tag that are no annotated field.
UnboundNames(ns) == UNION {Deps(ns, f) : f \in DOMAIN ns} \ DOMAIN ns

AllBound(ns) == UnboundNames(ns) = {}

Returned == pc = "done"

CallsOf(f) == {k \in DOMAIN calls : calls[k].field = f}

AllCallsOk == \A k \in DOMAIN calls : calls[k].ok

(***************************************************************************)
(* C1. For every schema whose reference graph is acyclic, whose references *)
(* all name annotated fields and whose loaders all succeed, Load has, when *)
(* it returns, called the loader of each annotated field exactly once, and *)
(* each call for a field came after a successful call for every field it   *)
(* references. Stated as the claim states it; Load violates it.            *)
(***************************************************************************)
C1_EachFieldLoadedOnceInOrder ==
    (Returned /\ ~HasCycle(built) /\ AllBound(built) /\ AllCallsOk) =>
        /\ \A f \in DOMAIN built : Cardinality(CallsOf(f)) = 1
        /\ \A k \in DOMAIN calls : \A d \in Deps(built, calls[k].field) :
              \E j \in 1..(k - 1) : calls[j].field = d /\ calls[j].ok

(***************************************************************************)
(* C2. Original statement: whenever the reference graph has a cycle        *)
(* through two or more fields, Load returns a circular-dependency error,   *)
(* whatever else the schema holds.                                         *)
(***************************************************************************)
C2_Original_CycleAlwaysCircular ==
    (Returned /\ HasCycle2(built)) => (err.kind = "circular" /\ err.wrap = "none")

(***************************************************************************)
(* C2, amended. Whenever the reference graph has a cycle through two or    *)
(* more fields, Load returns, before any loader call, a circular-          *)
(* dependency error if every reference names an annotated field, and       *)
(* otherwise a circular-dependency or an unbound-reference error,          *)
(* depending on the order in which the nodes are visited.                  *)
(***************************************************************************)
C2_CycleRejected ==
    (Returned /\ HasCycle2(built)) =>
        /\ err.wrap = "none"
        /\ calls = << >>
        /\ err.kind \in {"circular", "unbound"}
        /\ AllBound(built) => err.kind = "circular"

C2_Witness ==
    /\ Returned /\ HasCycle2(built) /\ AllBound(built)
    /\ Cardinality(DOMAIN built) = 3
    /\ err.kind = "circular"

(***************************************************************************)
(* C3. Original statement: whenever some tag references a name that is no  *)
(* annotated field, Load returns an unbound-reference error naming it,     *)
(* never a circular-dependency error.                                      *)
(***************************************************************************)
C3_Original_UnboundAlwaysUnbound ==
    (Returned /\ ~AllBound(built)) =>
        (err.kind = "unbound" /\ err.wrap = "none" /\ err.name \in UnboundNames(built))

(***************************************************************************)
(* C3, amended. Whenever some tag references a name that is no annotated   *)
(* field, Load returns an error of cycle detection, before any loader      *)
(* call: an unbound-reference error naming such a name if the reference    *)
(* graph has no cycle, and otherwise that or a circular-dependency error,  *)
(* depending on the order in which the nodes are visited.                  *)
(***************************************************************************)
C3_UnboundRejected ==
    (Returned /\ ~AllBound(built)) =>
        /\ err.wrap = "none"
        /\ calls = << >>
        /\ err.kind \in {"unbound", "circular"}
        /\ err.kind = "unbound" => err.name \in UnboundNames(built)
        /\ ~HasCycle(built) => err.kind = "unbound"

C3_Witness ==
    /\ Returned /\ ~AllBound(built) /\ ~HasCycle(built)
    /\ Cardinality(DOMAIN built) >= 2
    /\ err.kind = "unbound" /\ err.name = <<"X">>

(***************************************************************************)
(* C4. Whenever Load returns an unbound-reference or a circular-dependency *)
(* error, no loader has been called and no field has been written. Stated  *)
(* as the claim states it; Load violates it.                               *)
(***************************************************************************)
C4_SchemaErrorsBeforeAnyCall ==
    (Returned /\ err.kind \in {"unbound", "circular"}) =>
        (calls = << >> /\ config = ZeroConfig)

(***************************************************************************)
(* C5. When several loaders passed to Load have a non-empty tag on the     *)
(* same field, the field's node holds the tag and dependencies of the      *)
(* loader that comes first in the argument list, and only that loader is   *)
(* called for the field. Stated as the claim states it; Load violates it.  *)
(***************************************************************************)
\* The indices of the loaders, in argument order, with a non-empty tag on field i.
Claimants(i) == {k \in DOMAIN loaders : TagGet(schema, i, loaders[k].name) # <<>>}

FirstClaimant(i) == CHOOSE k \in Claimants(i) : \A j \in Claimants(i) : k <= j

C5_FirstListedLoaderWins ==
    pc # "build" =>
        \A i \in 1..NumField :
            Claimants(i) # {} =>
                /\ FieldNames[i] \in DOMAIN built
                /\ built[FieldNames[i]].loader = FirstClaimant(i)
                /\ built[FieldNames[i]].tag =
                       TrimSpace(TagGet(schema, i, loaders[FirstClaimant(i)].name))
                /\ built[FieldNames[i]].dependencies =
                       parseTag(TrimSpace(TagGet(schema, i, loaders[FirstClaimant(i)].name)))
                /\ \A k \in CallsOf(FieldNames[i]) : calls[k].loader = FirstClaimant(i)

(***************************************************************************)
(* C6. Original statement: whenever Load returns an error, every field of  *)
(* the record it returns holds its zero value.                             *)
(***************************************************************************)
C6_Original_NoPartialRecord ==
    (Returned /\ err.kind # "none") => config = ZeroConfig

(***************************************************************************)
(* C6, amended. Whenever Load returns an error of cycle detection, every   *)
(* field of the record it returns holds its zero value; when it returns an *)
(* error of resolving a tag or of a loader, the record is partially        *)
(* populated: each field whose loader succeeded before the failure holds   *)
(* the value that loader set, and every other field holds its zero value.  *)
(***************************************************************************)
\* The value the k-th call set.
ValueSet(k) == loaderValue(loaders[calls[k].loader], calls[k].resolvedTag)

C6_PartialRecordOnError ==
    (Returned /\ err.kind # "none") =>
        /\ err.wrap = "none" => config = ZeroConfig
        /\ \A f \in StructFields :
              IF \E k \in CallsOf(f) : calls[k].ok
              THEN \A k \in CallsOf(f) : calls[k].ok => config[f] = ValueSet(k)
              ELSE config[f] = ZeroValue

C6_Witness ==
    /\ Returned /\ err.wrap = "loading"
    /\ \E f \in StructFields : config[f] # ZeroValue
    /\ \E f \in StructFields : config[f] = ZeroValue /\ CallsOf(f) # {}

(***************************************************************************)
(* C7. Once resolving a tag or calling a loader fails for a field, Load    *)
(* returns at once: it calls no further loader and resolves no further     *)
(* field, and the error it returns wraps the cause with that field's name  *)
(* (the cause stays the kind errors.Is finds).                             *)
(***************************************************************************)
FailedCalls == {k \in DOMAIN calls : ~calls[k].ok}

C7_FailFastState ==
    /\ err.wrap # "none" => Returned
    /\ \A k \in FailedCalls :
          /\ k = Len(calls)
          /\ Returned
          /\ err = Wrap("loading", calls[k].field, ErrLoader)
    /\ err.wrap = "loading" => FailedCalls # {}
    /\ err.wrap = "resolving" =>
          /\ err.field \in DOMAIN nodes
          /\ AllCallsOk
          /\ resolveTag(nodes[err.field].tag, config).err = "unbound"
          /\ err = Wrap("resolving", err.field,
                        ErrUnboundVariable(resolveTag(nodes[err.field].tag, config).name))

C7_FailFast ==
    /\ []C7_FailFastState
    /\ [][err.kind # "none" => UNCHANGED <<calls, config, nodes, err, pc>>]_vars

C7_Witness ==
    /\ Returned /\ err.wrap = "loading"
    /\ Len(calls) >= 2
    /\ Cardinality(DOMAIN nodes) >= 2

(***************************************************************************)
(* Vocabulary of the properties of tags. These say what escaping and       *)
(* substitution mean without scanning with a state: a character is escaped *)
(* when an odd number of consecutive quotes stands right before it.        *)
(***************************************************************************)
QuoteRunBefore(t, i) ==
    CHOOSE n \in 0..(i - 1) :
        /\ \A m \in (i - n)..(i - 1) : t[m] = Quote
        /\ n = i - 1 \/ t[i - n - 1] # Quote

EscapedAt(t, i) == QuoteRunBefore(t, i) % 2 = 1

UnescapedQuoteAt(t, i) == t[i] = Quote /\ ~EscapedAt(t, i)

\* t without its unescaped quotes.
RECURSIVE DropQuotesFrom(_, _)
DropQuotesFrom(t, i) ==
    IF i > Len(t) THEN <<>>
    ELSE (IF UnescapedQuoteAt(t, i) THEN <<>> ELSE <<t[i]>>) \o DropQuotesFrom(t, i + 1)

Unescaped(t) == DropQuotesFrom(t, 1)

\* The identifier that follows the '@' at index i.
IdentAfter(t, i) == SubSeq(t, i + 1, identEnd(t, i + 1) - 1)

\* t with every @Identifier replaced by the value of that field.
RECURSIVE SubstFrom(_, _, _)
SubstFrom(t, i, cfg) ==
    IF i > Len(t) THEN <<>>
    ELSE IF t[i] = At /\ IdentAfter(t, i) \in DOMAIN cfg
         THEN cfg[IdentAfter(t, i)] \o SubstFrom(t, identEnd(t, i + 1), cfg)
         ELSE <<t[i]>> \o SubstFrom(t, i + 1, cfg)

Has(t, c) == \E i \in DOMAIN t : t[i] = c

CountOf(t, c) == Cardinality({i \in DOMAIN t : t[i] = c})

(***************************************************************************)
(* C8. Every unescaped @Identifier of a tag, wherever it stands, is        *)
(* replaced in the resolved tag by the value of the field it names, and    *)
(* the other text passes as literal. Stated for the tags with no quote, no *)
(* '|' and no blank, in which every '@' is followed by the name of a       *)
(* field; resolveTag violates it.                                          *)
(***************************************************************************)
C8_Scope(t) ==
    /\ ~Has(t, Quote) /\ ~Has(t, Bar) /\ ~Has(t, " ")
    /\ \A i \in DOMAIN t : t[i] = At => IdentAfter(t, i) \in DOMAIN config

C8_EveryReferenceSubstituted ==
    (pc = "resolved" /\ C8_Scope(tag)) =>
        (resolvedTag.err = "none" /\ resolvedTag.value = SubstFrom(tag, 1, config))

(***************************************************************************)
(* C9. For a tag written p1||...||pn, the resolved tag is the              *)
(* concatenation, left to right and with no separator, of what the trimmed *)
(* parts resolve to: a part @F gives the value of field F, a literal part  *)
(* gives its text.                                                         *)
(***************************************************************************)
PartValue(core) ==
    IF core # <<>> /\ Head(core) = At THEN config[Tail(core)] ELSE core

RECURSIVE ConcatValues(_)
ConcatValues(ps) ==
    IF ps = <<>> THEN <<>> ELSE PartValue(Head(ps).core) \o ConcatValues(Tail(ps))

C9_ConcatenationOfParts ==
    (pc = "resolved" /\ parts # <<>>) =>
        (resolvedTag.err = "none" /\ resolvedTag.value = ConcatValues(parts))

C9_Witness ==
    /\ pc = "resolved"
    /\ Len(parts) = 3
    /\ parts[1].text = <<"@", "A", " ">>
    /\ parts[2].text = <<" ", "@", "B">>
    /\ parts[3].text = <<" ", "x">>
    /\ resolvedTag.value = config[<<"A">>] \o config[<<"B">>] \o <<"x">>

(***************************************************************************)
(* C10. Original statement: an unescaped quote makes the next character    *)
(* literal, whatever that character is: the quote is dropped and the       *)
(* character is copied to the resolved tag. Stated for the raw tags in     *)
(* which every '@' is escaped and no two unescaped '|' are adjacent.       *)
(***************************************************************************)
C10_Scope(t) ==
    /\ \A i \in DOMAIN t : t[i] = At => EscapedAt(t, i)
    /\ \A i \in DOMAIN t :
          (i < Len(t) /\ t[i] = Bar /\ t[i + 1] = Bar) =>
              (EscapedAt(t, i) \/ EscapedAt(t, i + 1))

C10_Original_NextCharacterLiteral ==
    (pc = "resolved" /\ C10_Scope(raw)) =>
        (resolvedTag.err = "none" /\ resolvedTag.value = Unescaped(TrimSpace(raw)))

(***************************************************************************)
(* C10, amended. Within each part of a tag (the trimmed tag cut at every   *)
(* '||' of the raw text, each piece trimmed) that does not begin with '@', *)
(* an unescaped quote makes the next character of that part literal: the   *)
(* quote is dropped and the character is copied. A quote protects neither  *)
(* a '|' from the cut at '||' nor a blank from the trimming of a part. An  *)
(* '@' right after an unescaped quote is neither recorded by parseTag nor  *)
(* substituted by resolveTag.                                              *)
(***************************************************************************)
PartsOf(t) ==
    IF Contains(t, BarBar)
    THEN LET ps == Split(t, BarBar) IN [k \in DOMAIN ps |-> TrimSpace(ps[k])]
    ELSE <<t>>

PartExpected(p) ==
    IF HasPrefix(p, <<At>>) THEN config[Tail(p)] ELSE Unescaped(p)

RECURSIVE ConcatExpected(_)
ConcatExpected(ps) ==
    IF ps = <<>> THEN <<>> ELSE PartExpected(Head(ps)) \o ConcatExpected(Tail(ps))

C10_QuoteEscapesWithinPart ==
    /\ pc \in {"resolve", "resolved"} =>
          \A k \in DOMAIN references : ~EscapedAt(tag, references[k].at)
    /\ (pc = "resolved" /\ resolvedTag.err = "none") =>
          resolvedTag.value = ConcatExpected(PartsOf(tag))
    /\ (pc = "resolved" /\ \A i \in DOMAIN tag : tag[i] = At => EscapedAt(tag, i)) =>
          /\ resolvedTag.err = "none"
          /\ references = << >>
          /\ CountOf(resolvedTag.value, At) = CountOf(tag, At)

C10_Witness ==
    /\ pc = "resolved"
    /\ tag = <<Quote, At, Quote, "A", "x">>
    /\ references = << >>
    /\ resolvedTag.value = <<At, "A", "x">>

(***************************************************************************)
(* Vocabulary of the properties of the loaders.                            *)
(***************************************************************************)
FieldIndex(f) == CHOOSE i \in 1..NumField : FieldNames[i] = f

KindOfField(f) == schema[FieldIndex(f)].kind

\* The loader at the bottom of a chain of WithTag wrappers.
RECURSIVE Innermost(_)
Innermost(l) == IF l.type = "withTag" THEN Innermost(l.loader) ELSE l

\* The calls that ended in the environment loader.
EnvCalls == {k \in DOMAIN calls : Innermost(loaders[calls[k].loader]).type = "env"}

\* The text the environment loader parses: the resolved tag, trimmed.
Directive(k) == TrimSpace(calls[k].resolvedTag)

\* The loader parses the text as VAR, VAR? or VAR=default: it does not take
\* it for a tag left unresolved.
EnvDirective(d) == ~HasPrefix(d, <<At>>) /\ ~Contains(d, BarBar)

\* Load has returned no error that names the field of call k.
NoErrorFor(k) == ~(err.kind # "none" /\ err.field = calls[k].field)

OnlyFieldAnnotated(i, loaderName) ==
    \A j \in 1..NumField : j # i => TagGet(schema, j, loaderName) = <<>>

AllAtsEscaped(t) == \A i \in DOMAIN t : t[i] = At => EscapedAt(t, i)

(***************************************************************************)
(* C11. When every '@' of a tag is quote-escaped, so that the resolved     *)
(* text begins with '@', Load with the environment loader succeeds and     *)
(* stores the value of the environment variable whose name is that text    *)
(* (the tag "@"@S reads the variable @@S). Stated as the claim states it,  *)
(* for a struct whose only annotated field is a string; Load violates it.  *)
(***************************************************************************)
C11_EscapedAtNamesVariable ==
    \A i \in 1..NumField :
        LET t == TrimSpace(TagGet(schema, i, "env"))
            name == Unescaped(t)
        IN  ( /\ Returned
              /\ Len(loaders) = 1 /\ loaders[1].type = "env"
              /\ OnlyFieldAnnotated(i, "env")
              /\ schema[i].kind = "string"
              /\ t # <<>> /\ AllAtsEscaped(t)
              /\ HasPrefix(name, <<At>>)
              /\ name \in DOMAIN environ )
            => /\ err.kind = "none"
               /\ config[FieldNames[i]] = environ[name]

(***************************************************************************)
(* C12. For every environment directive NAME=DEFAULT whose variable NAME   *)
(* is not set, the call succeeds and the field receives DEFAULT converted  *)
(* to the field's type, for every DEFAULT text (on a field of kind int,    *)
(* for every DEFAULT that is the text of an integer). Stated as the claim  *)
(* states it; the loader violates it.                                      *)
(***************************************************************************)
C12_DefaultForEveryText ==
    \A k \in EnvCalls :
        LET d == Directive(k)
            idx == IndexFrom(d, <<"=">>, 1)
            NAME == TrimSpace(SubSeq(d, 1, idx - 1))
            DEFAULT == SubSeq(d, idx + 1, Len(d))
            kind == KindOfField(calls[k].field)
        IN  ( /\ EnvDirective(d)
              /\ idx # 0
              /\ NAME \notin DOMAIN environ
              /\ kind = "int" => ParseInt(DEFAULT).ok )
            => /\ calls[k].ok
               /\ calls[k].wrote
               /\ config[calls[k].field] =
                     (IF kind = "int" THEN IntValue(ParseInt(DEFAULT).n) ELSE DEFAULT)

WithTagCalls == {k \in DOMAIN calls : loaders[calls[k].loader].type = "withTag"}

\* The names under which the loaders were passed to Load: a wrapper's is the
\* name it was given, never that of the loader inside.
PassedNames ==
    {IF loaders[j].type = "withTag" THEN loaders[j].name ELSE GocfgLoaderName(loaders[j]) :
        j \in DOMAIN loaders}

C15_WithTagRenamesAndDelegates ==
    /\ pc # "build" =>
          /\ \A f \in DOMAIN built :
                LET l == loaders[built[f].loader] IN
                l.type = "withTag" =>
                    /\ TagGet(schema, FieldIndex(f), l.name) # <<>>
                    /\ built[f].tag = TrimSpace(TagGet(schema, FieldIndex(f), l.name))
          /\ \A i \in 1..NumField :
                (\A nm \in PassedNames : TagGet(schema, i, nm) = <<>>)
                    => FieldNames[i] \notin DOMAIN built
    /\ \A k \in WithTagCalls :
          LET w == loaders[calls[k].loader] IN
          /\ Len(calls[k].inner) = 1
          /\ calls[k].inner[1].loader = w.loader
          /\ calls[k].inner[1].field = calls[k].field
          /\ calls[k].inner[1].dest = calls[k].dest
          /\ calls[k].inner[1].resolvedTag = calls[k].resolvedTag
          /\ calls[k].ok = (calls[k].inner[1].err.kind = "none")
          /\ ~calls[k].ok => err = Wrap("loading", calls[k].field, calls[k].inner[1].err)

C15_Witness ==
    /\ Returned
    /\ \E k \in WithTagCalls :
          /\ ~calls[k].ok
          /\ calls[k].inner[1].err.kind = "missing"
          /\ TagGet(schema, FieldIndex(calls[k].field), "env") # <<>>
          /\ loaders[calls[k].loader].name = "cfg"

(***************************************************************************)
(* C16. A field whose tag for a loader is present but empty is treated as  *)
(* having no tag for that loader: no node is built from it, that loader is *)
(* never called for the field, and a field whose tags are all empty gets   *)
(* no node, no call and keeps its zero value.                              *)
(***************************************************************************)
C16_EmptyTagIsAbsent ==
    pc # "build" =>
        \A i \in 1..NumField :
            LET f == FieldNames[i]
                empty == {j \in DOMAIN loaders :
                             TagGet(schema, i, GocfgLoaderName(loaders[j])) = <<>>}
            IN  /\ \A j \in empty :
                      /\ f \in DOMAIN built => built[f].loader # j
                      /\ \A k \in CallsOf(f) : calls[k].loader # j
                /\ empty = DOMAIN loaders =>
                      /\ f \notin DOMAIN built
                      /\ CallsOf(f) = {}
                      /\ config[f] = ZeroValue

C16_Witness ==
    /\ Returned /\ err.kind = "none"
    /\ Len(loaders) = 2
    /\ TagGet(schema, 1, "env") = <<>> /\ TagGet(schema, 1, "sm") # <<>>
    /\ config[FieldNames[1]] # ZeroValue
    /\ TagGet(schema, 2, "env") = <<>> /\ TagGet(schema, 2, "sm") = <<>>
    /\ config[FieldNames[2]] = ZeroValue

(***************************************************************************)
(* C17. For a Secrets Manager directive that ends in '?', the loader       *)
(* returns no error and leaves the field unchanged whenever the secret     *)
(* cannot be retrieved or the requested key cannot be found in it, in the  *)
(* forms name? and name:key?. Stated as the claim states it; the loader    *)
(* violates it.                                                            *)
(***************************************************************************)
SmCalls == {k \in DOMAIN calls : Innermost(loaders[calls[k].loader]).type = "sm"}

\* The key the directive of call k asks for after ':' (<<>>: it asks for none).
RequestedKey(k) ==
    LET d == calls[k].resolvedTag
        body == SubSeq(d, 1, Len(d) - 1)
        idx == IndexFrom(body, <<":">>, 1)
    IN  IF idx = 0 THEN <<>> ELSE TrimSpace(SubSeq(body, idx + 1, Len(body)))

CannotRetrieve(k) == calls[k].ext.secret.res = "error"

\* The secret came, and the key asked for is no member of it: it is a JSON
\* object without that member, or no JSON object at all.
KeyNotFound(k) ==
    LET r == calls[k].ext.secret
        key == RequestedKey(k)
    IN  /\ r.res = "string"
        /\ IF r.object
           THEN (IF key = <<>> THEN calls[k].field ELSE key) \notin DOMAIN r.map
           ELSE key # <<>> /\ key # calls[k].field

C17_OptionalSecretSkipped ==
    \A k \in SmCalls :
        ( /\ HasSuffix(calls[k].resolvedTag, <<"?">>)
          /\ CannotRetrieve(k) \/ KeyNotFound(k) )
        => /\ calls[k].ok
           /\ ~calls[k].wrote
           /\ config[calls[k].field] = ZeroOf(KindOfField(calls[k].field))

(***************************************************************************)
(* C18. detectCircularDependencies returns no error if and only if every   *)
(* dependency of every node names a node and the dependency graph has no   *)
(* cycle (a self-reference included), in whatever order the range over the *)
(* map of nodes produces them.                                             *)
(***************************************************************************)
\* Load returned the error of detectCircularDependencies.
DetectionFailed == err.wrap = "none" /\ err.kind \in {"unbound", "circular"}

C18_DetectionSucceedsIffSound ==
    pc \notin {"build", "detect"} =>
        (~DetectionFailed <=> (AllBound(built) /\ ~HasCycle(built)))

C18_Witness ==
    /\ pc = "loop" /\ passes = 0
    /\ ~DetectionFailed
    /\ Cardinality(DOMAIN built) = NumField
    /\ \E f, g \in DOMAIN built : f # g /\ Deps(built, f) # {} /\ Deps(built, g) # {}

(***************************************************************************)
(* C19. Whenever detectCircularDependencies reports a circular dependency  *)
(* naming the pair (n, d), d is a dependency of n and n is reachable from  *)
(* d along dependency edges, so the edge lies on a cycle; for the schema   *)
(* {A references B, B references A} the error is reported and its pair    *)
(* consists of A and B.                                                    *)
(***************************************************************************)
C19_ReportedEdgeOnCycle ==
    /\ err.kind = "circular" =>
          /\ err.name \in DOMAIN built
          /\ err.dep \in Deps(built, err.name)
          /\ err.name = err.dep \/ err.name \in Reach(built, err.dep)
    /\ ( /\ pc \notin {"build", "detect"}
         /\ DOMAIN built = {<<"A">>, <<"B">>}
         /\ Deps(built, <<"A">>) = {<<"B">>}
         /\ Deps(built, <<"B">>) = {<<"A">>} )
       => /\ err.kind = "circular"
          /\ {err.name, err.dep} = {<<"A">>, <<"B">>}

C19_Witness ==
    /\ err.kind = "circular"
    /\ err.name # err.dep
    /\ err.name \notin Deps(built, err.dep)
    /\ err.name \in Reach(built, err.dep)

(***************************************************************************)
(* C20. Once cycle detection has succeeded, every pass of the scheduler    *)
(* over the pending nodes resolves at least one field or ends Load with    *)
(* the error of a resolver or a loader: at the end of a pass the progress  *)
(* flag is set, after p passes without an error at most (nodes built - p)  *)
(* nodes are pending, and 'unable to resolve all dependencies' is never    *)
(* returned.                                                               *)
(***************************************************************************)
C20_EveryPassProgresses ==
    /\ err.kind # "stalled"
    /\ (pc = "range" /\ iter = {}) =>
          /\ progress
          /\ Cardinality(DOMAIN nodes) + passes <= Cardinality(DOMAIN built)
    /\ pc = "loop" => Cardinality(DOMAIN nodes) + passes <= Cardinality(DOMAIN built)

C20_Witness ==
    /\ Returned /\ err.kind = "none"
    /\ passes = NumField
    /\ Len(calls) = NumField

(***************************************************************************)
(* Vocabulary of C21: a raw tag x e y in which e is a '||' with one quote  *)
(* placed before its first or before its second character, and x and y     *)
(* hold no quote, no '|' and no '@'.                                       *)
(***************************************************************************)
\* The index of the only quote of t.
TheQuote(t) == CHOOSE q \in DOMAIN t : t[q] = Quote

OneEscapeOnBars(t) ==
    /\ ~Has(t, At)
    /\ CountOf(t, Quote) = 1
    /\ CountOf(t, Bar) = 2

\* The quote stands before the first '|': x"||y.
FirstBarEscaped(t) ==
    /\ OneEscapeOnBars(t)
    /\ TheQuote(t) + 2 <= Len(t)
    /\ t[TheQuote(t) + 1] = Bar /\ t[TheQuote(t) + 2] = Bar

\* The quote stands before the second '|': x|"|y.
SecondBarEscaped(t) ==
    /\ OneEscapeOnBars(t)
    /\ TheQuote(t) > 1 /\ TheQuote(t) < Len(t)
    /\ t[TheQuote(t) - 1] = Bar /\ t[TheQuote(t) + 1] = Bar

(***************************************************************************)
(* C21. Original statement: escaping either one of the two characters of a *)
(* '||' never protects it: with one quote before the first or before the   *)
(* second '|', the resolved tag holds no '||'.                             *)
(***************************************************************************)
C21_Original_NoEscapeProtectsBars ==
    (pc = "resolved" /\ (FirstBarEscaped(raw) \/ SecondBarEscaped(raw))) =>
        (resolvedTag.err = "none" /\ ~Contains(resolvedTag.value, BarBar))

(***************************************************************************)
(* C21, amended. A quote before the first character of a '||' does not     *)
(* protect it: the raw tag x"||y is still cut there and resolves to x and  *)
(* y joined, with no '||' (x trimmed on the left only, for the quote ends  *)
(* its part). A quote between the two characters does protect it: the raw  *)
(* tag x|"|y holds no '||', is not cut, and resolves to x||y.              *)
(***************************************************************************)
C21_OnlySecondBarEscapable ==
    /\ (pc = "resolved" /\ FirstBarEscaped(raw)) =>
          LET q == TheQuote(raw) IN
          /\ resolvedTag.err = "none"
          /\ resolvedTag.value =
                TrimLeft(SubSeq(raw, 1, q - 1)) \o TrimSpace(SubSeq(raw, q + 3, Len(raw)))
          /\ ~Contains(resolvedTag.value, BarBar)
    /\ (pc = "resolved" /\ SecondBarEscaped(raw)) =>
          LET q == TheQuote(raw) IN
          /\ resolvedTag.err = "none"
          /\ resolvedTag.value =
                TrimLeft(SubSeq(raw, 1, q - 2)) \o BarBar
                    \o TrimRight(SubSeq(raw, q + 2, Len(raw)))

C21_Witness ==
    /\ pc = "resolved"
    /\ raw = <<"x", Bar, Quote, Bar, "A">>
    /\ resolvedTag.value = <<"x", Bar, Bar, "A">>

(***************************************************************************)
(* C22. An '@' that is not followed by an identifier character is never    *)
(* treated as a reference: for a field whose tag holds no other '@',       *)
(* parseTag records no dependency, and Load does not fail with an unbound- *)
(* reference error for that field. Stated as the claim states it; Load     *)
(* violates it.                                                            *)
(***************************************************************************)
\* Every '@' of t stands at the end of t or before a character that is no
\* identifier character, and there is one.
OnlyBareAts(t) ==
    /\ Has(t, At)
    /\ \A i \in DOMAIN t : t[i] = At => ~(i < Len(t) /\ isIdentChar(t[i + 1]))

C22_BareAtIsNoReference ==
    pc # "build" =>
        \A f \in DOMAIN built :
            OnlyBareAts(built[f].tag) =>
                /\ built[f].dependencies = << >>
                /\ ~(err.kind = "unbound" /\ err.field = f)

(***************************************************************************)
(* C23. A reference to a field whose type is not string is replaced in the *)
(* resolved directive by the textual form of the value loaded into that    *)
(* field: when the tag of a field is '@g', g is an int field and an        *)
(* adapter has written n into g, the directive handed to the adapter is    *)
(* the decimal text of n. Stated as the claim states it; Load violates it. *)
(***************************************************************************)
\* The calls whose adapter wrote the field f.
WritesOf(f) == {j \in DOMAIN calls : calls[j].field = f /\ calls[j].wrote}

C23_IntReferenceGivesItsText ==
    \A k \in DOMAIN calls : \A g \in DOMAIN config :
        ( /\ built[calls[k].field].tag = <<At>> \o g
          /\ KindOfField(g) = "int"
          /\ WritesOf(g) # {} )
        => calls[k].resolvedTag = FormatInt(config[g][2])

(***************************************************************************)
(* C24. For every tag, parseTag returns exactly the maximal identifier     *)
(* runs that follow each unescaped '@', in the order of occurrence with    *)
(* duplicates kept; a character is escaped exactly when it directly        *)
(* follows an unescaped quote. An '@' with no identifier character after   *)
(* it has no run and gives no entry.                                       *)
(***************************************************************************)
\* The last index of the longest run of identifier characters that starts
\* right after index i (i itself when there is none).
RunEnd(t, i) ==
    CHOOSE e \in i..Len(t) :
        /\ \A m \in (i + 1)..e : isIdentChar(t[m])
        /\ e = Len(t) \/ ~isIdentChar(t[e + 1])

\* The indices of the unescaped '@' that an identifier character follows.
RefSites(t) ==
    {i \in DOMAIN t : t[i] = At /\ ~EscapedAt(t, i) /\ RunEnd(t, i) > i}

\* The runs after the sites from index i on, left to right.
RECURSIVE RunsFrom(_, _)
RunsFrom(t, i) ==
    IF i > Len(t) THEN <<>>
    ELSE (IF i \in RefSites(t)
          THEN <<[at |-> i, name |-> SubSeq(t, i + 1, RunEnd(t, i))]>>
          ELSE <<>>) \o RunsFrom(t, i + 1)

C24_ParseTagGivesUnescapedRuns ==
    pc \in {"resolve", "resolved"} =>
        /\ references = RunsFrom(tag, 1)
        /\ parseTag(tag) = [k \in 1..Len(references) |-> references[k].name]

C24_Witness ==
    /\ pc = "resolved"
    /\ tag = <<Quote, At, "A", At, "A">>
    /\ references = <<[at |-> 4, name |-> <<"A">>]>>

(***************************************************************************)
(* C25. For a schema in which every field has a non-empty annotation for   *)
(* at most one supplied adapter, when every adapter call succeeds, the     *)
(* record Load returns is the same for every order in which the maps are   *)
(* ranged over: it is the record of the run that always takes the ready    *)
(* field of least index. Stated as the claim states it; Load violates it.  *)
(***************************************************************************)
AtMostOneAnnotation ==
    \A i \in 1..NumField :
        Cardinality({name \in DOMAIN loaderMapOf(loaders) :
                        TagGet(schema, i, name) # <<>>}) <= 1

\* An adapter call that succeeds: nothing outside the program makes it fail.
Succeeds == [ok |-> TRUE, secret |-> NoSecret]

\* The ready field of least index among the pending nodes ns.
LeastReady(ns) ==
    LET ready == {f \in DOMAIN ns : allResolved(ns[f], ns)} IN
    FieldNames[CHOOSE i \in 1..NumField :
                  /\ FieldNames[i] \in ready
                  /\ \A j \in 1..NumField : FieldNames[j] \in ready => i <= j]

\* The record of the run that loads the ready field of least index first.
RECURSIVE CanonLoad(_, _)
CanonLoad(ns, cfg) ==
    IF \A f \in DOMAIN ns : ~allResolved(ns[f], ns) THEN cfg
    ELSE LET f == LeastReady(ns)
             r == resolveTag(ns[f].tag, cfg)
             out == loaderLoad(loaders[ns[f].loader], f, fieldSlot(ns[f]),
                               schema[ns[f].fieldIndex].kind, r.value, environ, Succeeds)
         IN  IF r.err # "none" \/ out.err.kind # "none" THEN cfg
             ELSE CanonLoad([g \in DOMAIN ns \ {f} |-> ns[g]],
                            IF out.write THEN [cfg EXCEPT ![fieldSlot(ns[f])] = out.value]
                            ELSE cfg)

CanonRecord ==
    IF AllBound(built) /\ ~HasCycle(built) THEN CanonLoad(built, ZeroConfig) ELSE ZeroConfig

C25_RecordIndependentOfOrder ==
    (Returned /\ AtMostOneAnnotation /\ AllCallsOk) => config = CanonRecord

(***************************************************************************)
(* C26. Every field whose value resolveTag reads while resolving a tag is  *)
(* listed in the dependencies parseTag extracted from that same tag.       *)
(* Stated as the claim states it; the code violates it.                    *)
(***************************************************************************)
\* The names parseTag extracted.
Dependencies == {references[k].name : k \in DOMAIN references}

C26_ReadsAreDependencies ==
    pc = "resolved" => resolveReads(tag, config) \subseteq Dependencies

(***************************************************************************)
(* C27. Load terminates for every schema as long as each adapter call      *)
(* returns: the number of scheduler passes never exceeds the number of     *)
(* annotated fields, each pass that starts with n pending fields either    *)
(* leaves fewer than n pending or ends Load with an error, and Load        *)
(* returns.                                                                *)
(***************************************************************************)
Pending == Cardinality(DOMAIN nodes)

\* A pass has just started with n pending fields.
PassStarts(n) == pc = "range" /\ ~progress /\ iter = DOMAIN nodes /\ Pending = n

\* Control is back at the head of the outer loop, or Load has returned.
PassOver == pc \in {"loop", "done"}

C27_Terminates ==
    /\ [](passes <= Cardinality(DOMAIN built))
    /\ \A n \in 0..NumField :
          [](PassStarts(n) => [](PassOver => (Pending < n \/ err.kind # "none")))
    /\ <>Returned

C27_Witness ==
    /\ Returned /\ err.kind = "none"
    /\ passes = NumField
    /\ DOMAIN built = StructFields
    /\ DOMAIN nodes = {}

(***************************************************************************)
(* C28. Load itself never writes a field: the record changes only in a     *)
(* step that makes a successful adapter call, and then only in the slot    *)
(* handed to that call; each call is handed the slot of the field it was   *)
(* selected for, by the loader selected for that field; and a field with   *)
(* no non-empty annotation for any supplied adapter keeps its zero value.  *)
(***************************************************************************)
Unannotated(i) ==
    \A name \in DOMAIN loaderMapOf(loaders) : TagGet(schema, i, name) = <<>>

C28_CallsGetTheirOwnSlot ==
    \A k \in DOMAIN calls :
        /\ calls[k].field \in DOMAIN built
        /\ calls[k].dest = calls[k].field
        /\ calls[k].dest = FieldNames[built[calls[k].field].fieldIndex]
        /\ calls[k].loader = built[calls[k].field].loader

C28_UnannotatedStaysZero ==
    \A i \in 1..NumField :
        Unannotated(i) => config[FieldNames[i]] = ZeroOf(schema[i].kind)

C28_WriteStep ==
    config' # config =>
        /\ calls' = Append(calls, calls'[Len(calls')])
        /\ calls'[Len(calls')].ok
        /\ calls'[Len(calls')].wrote
        /\ \A f \in DOMAIN config :
              f # calls'[Len(calls')].dest => config'[f] = config[f]

C28_OnlyAdaptersWrite ==
    /\ []C28_CallsGetTheirOwnSlot
    /\ []C28_UnannotatedStaysZero
    /\ [][C28_WriteStep]_vars

C28_Witness ==
    /\ Returned /\ err.kind = "none"
    /\ Unannotated(1) /\ ~Unannotated(2) /\ ~Unannotated(3)
    /\ Len(calls) = 2
    /\ config[FieldNames[1]] = ZeroValue
    /\ config[FieldNames[2]] # ZeroValue
    /\ config[FieldNames[3]] # ZeroValue

====
